---- MODULE Spec2Model ----
(***************************************************************************)
(* Model of the migration lifecycle manager of browseterm-db:              *)
(* browseterm_db/migrations/migrator.py (class Migrator) together with the *)
(* migration environment migrations/env.py it drives through alembic.      *)
(*                                                                         *)
(* State: the versions directory (revision scripts), the live PostgreSQL   *)
(* schema (public tables, enum types) and the single alembic_version row.  *)
(* Every Migrator method is one action; a call runs in one transaction     *)
(* (env.py: `with context.begin_transaction(): context.run_migrations()`), *)
(* so a call either commits all its steps or none.                         *)
(***************************************************************************)
EXTENDS Integers, Sequences, FiniteSets, TLC

\* ---------------------------------------------------------------- bounds
\* Number of revision identifiers the generator may hand out in one run.
MaxRevs == 3

\* ------------------------------------------------------------- constants
\* "no revision": a None down_revision, an absent alembic_version row.
NoRev == 0

VersionTable == "alembic_version"

\* Tables registered on Base.metadata (browseterm_db/models/all_models.py).
ManagedTables ==
    {"users", "subscription_types", "subscriptions", "images", "containers", "orders"}

\* PostgreSQL enum types that CREATE TABLE of a model emits (Column(Enum(...))).
EnumsOf(t) ==
    CASE t = "users" -> {"authprovider"}
      [] t = "subscription_types" -> {"subscriptiontypecurrency"}
      [] t = "subscriptions" -> {"subscriptionstatus"}
      [] t = "containers" -> {"containerstatus"}
      [] t = "orders" -> {"orderscurrency", "orderstatus"}
      [] OTHER -> {}

EnumsOfAll(ts) == UNION {EnumsOf(t) : t \in ts}

\* Tables named by the DROP TABLE statements of reset_database().
ResetDropTables ==
    {VersionTable, "orders", "containers", "subscriptions", "subscription_types", "users"}

\* Types named by the DROP TYPE statements of reset_database().
ResetDropTypes ==
    {"orderscurrency", "subscriptiontypecurrency", "authprovider",
     "orderstatus", "subscriptionstatus", "containerstatus"}

\* ----------------------------------------------------------------- state
VARIABLES
    versions,     \* the versions directory: set of revision scripts
    nextRev,      \* next fresh revision identifier (uuid in the library)
    tables,       \* live tables of schema public
    types,        \* live enum types
    version_num,  \* the alembic_version row, NoRev when there is none
    last,         \* record of the most recent Migrator call and its outcome
    prev          \* operation and argument of the call before it

migratorVars == <<versions, nextRev, tables, types, version_num, last, prev>>

\* PGListener (browseterm_db/common/pg_listener.py): the object's fields, the
\* position of the thread that executes run(), and the notifications in flight.
VARIABLES
    conn,            \* self._conn: "none" or "open"
    callbacks,       \* self._callbacks: the channels with a registered callback
    running,         \* self._running
    loop,            \* position of the execution of run()
    in_thread,       \* run() is executed by self._thread (run_in_thread)
    caller,          \* the calling thread: "idle", "joining" or "running"
    socket,          \* notifications sent by the server, not yet polled
    notifies,        \* self._conn.notifies
    delivered,       \* the calls of callbacks, in order
    sent,            \* number of notifications sent so far
    stop_requested,  \* stop() was called since the loop was last started
    lcall            \* the most recent step on the listener and its outcome

listenerVars ==
    <<conn, callbacks, running, loop, in_thread, caller, socket, notifies,
      delivered, sent, stop_requested, lcall>>

\* The application tables behind the DBOperations classes
\* (browseterm_db/operations) and the reference-data sync
\* (db_state_manager/state_manager.py).
VARIABLES
    images,              \* rows of table images
    subscription_types,  \* rows of table subscription_types
    users,               \* ids of the rows of table users
    subscriptions,       \* rows of table subscriptions
    containers,          \* rows of table containers
    orders,              \* rows of table orders
    lsync,               \* the most recent call on images / subscription_types
    lop                  \* the most recent call of a user-data operation

syncVars == <<images, subscription_types, lsync>>

opsVars == <<users, subscriptions, containers, orders, lop>>

\* The status column of table containers under the hand-written revisions
\* 089fb8e7c9e2 and a1b2c3d4e5f6 (browseterm_db/migrations/versions).
VARIABLES
    containerstatus,  \* labels of the enum type containerstatus
    container_rows,   \* rows of containers: id, user_id, name, status, updated_at
    schema_rev,       \* position of the alembic_version row in RevisionChain
    trigger,          \* container_status_change_trigger exists
    notified,         \* notifications raised on container_status_change
    clock,            \* number of UPDATE statements so far (datetime.now)
    lrev              \* the most recent statement or migration and its outcome

statusVars ==
    <<containerstatus, container_rows, schema_rev, trigger, notified, clock, lrev>>

\* A SubscriptionOps object (DBOperations, browseterm_db/operations/__init__.py).
VARIABLES
    session           \* self.session: "none" or "open"

tableVars == <<syncVars, opsVars, statusVars, session>>

vars == <<migratorVars, listenerVars, tableVars>>

\* The live database as one value.
Db == [tables |-> tables, types |-> types, version_num |-> version_num]

\* ------------------------------------------------------ script directory
Revs == {s.revision : s \in versions}

ScriptOf(r) == CHOOSE s \in versions : s.revision = r

\* ScriptDirectory.get_current_head(): the revision no script names as parent.
CurrentHead ==
    IF versions = {} THEN NoRev
    ELSE CHOOSE r \in Revs : \A s \in versions : s.down_revision # r

\* Revisions from the root down to r, following down_revision pointers.
RECURSIVE Lineage(_)
Lineage(r) ==
    IF r = NoRev THEN <<>>
    ELSE Append(Lineage(ScriptOf(r).down_revision), r)

InSeq(x, sq) == \E i \in 1..Len(sq) : sq[i] = x

\* The marker names a revision whose script is gone (alembic: "Can't locate
\* revision identified by ...").
Dangling(db) == db.version_num # NoRev /\ db.version_num \notin Revs

\* ------------------------------------------------------- call arguments
TargetHead == [kind |-> "head", rev |-> NoRev]
TargetBase == [kind |-> "base", rev |-> NoRev]
TargetPrevious == [kind |-> "-1", rev |-> NoRev]
TargetRev(r) == [kind |-> "rev", rev |-> r]
Autogenerate(b) == [kind |-> IF b THEN "autogenerate" ELSE "empty", rev |-> NoRev]
NoArg == [kind |-> "none", rev |-> NoRev]

\* ------------------------------------------------------ migration runner
\* MigrationContext._ensure_version_table(): run_migrations creates the
\* tracking table when the database has no current head.
EnsureVersionTable(db) ==
    IF db.version_num = NoRev
    THEN [db EXCEPT !.tables = @ \cup {VersionTable}]
    ELSE db

\* A statement of the script's upgrade() raises: CREATE TABLE of an existing
\* table, CREATE TYPE of an existing enum type, DROP TABLE of a missing one.
UpgradeStepOk(s, st) ==
    /\ s.creates \cap st.tables = {}
    /\ EnumsOfAll(s.creates) \cap st.types = {}
    /\ s.drops \subseteq st.tables

\* The script's upgrade() followed by the marker update of that step.
UpgradeStep(s, st) ==
    [tables |-> (st.tables \cup s.creates) \ s.drops,
     types |-> st.types \cup EnumsOfAll(s.creates),
     version_num |-> s.revision]

\* The script's downgrade(): op.drop_table of what upgrade() created (the
\* enum types stay behind), op.create_table of what it dropped.
DowngradeStepOk(s, st) ==
    /\ s.creates \subseteq st.tables
    /\ s.drops \cap st.tables = {}
    /\ EnumsOfAll(s.drops) \cap st.types = {}

\* Variant: the marker is set to the numerically preceding identifier instead
\* of the script's down_revision.
DowngradeStepPrecedingId(s, st) ==
    [tables |-> (st.tables \ s.creates) \cup s.drops,
     types |-> st.types \cup EnumsOfAll(s.drops),
     version_num |-> s.revision - 1]

DowngradeStep(s, st) ==
    [tables |-> (st.tables \ s.creates) \cup s.drops,
     types |-> st.types \cup EnumsOfAll(s.drops),
     version_num |-> s.down_revision]

StepOk(dir, s, st) ==
    IF dir = "up" THEN UpgradeStepOk(s, st) ELSE DowngradeStepOk(s, st)

ApplyStep(dir, s, st) ==
    IF dir = "up" THEN UpgradeStep(s, st) ELSE DowngradeStep(s, st)

\* context.run_migrations(): the steps in order, each once, stopping at the
\* first one that raises.  st is the state inside the transaction.
RECURSIVE RunMigrations(_, _, _, _)
RunMigrations(dir, steps, st, applied) ==
    IF steps = <<>>
    THEN [ok |-> TRUE, st |-> st, applied |-> applied, failed |-> NoRev]
    ELSE LET s == ScriptOf(Head(steps))
         IN IF ~StepOk(dir, s, st)
            THEN [ok |-> FALSE, st |-> st, applied |-> applied, failed |-> s.revision]
            ELSE RunMigrations(dir, Tail(steps), ApplyStep(dir, s, st),
                               Append(applied, s.revision))

\* env.py run_migrations_online: one transaction around the whole walk
\* (context.configure is called without transaction_per_migration), committed
\* when run_migrations returns and rolled back when it raises.
\* Variant: transaction_per_migration, every completed step stays committed.
BeginTransactionPerMigration(db, res) == res.st

BeginTransaction(db, res) == IF res.ok THEN res.st ELSE db

\* ScriptDirectory._upgrade_revs: the revisions after the marker up to and
\* including the destination, in chain order; none when the destination is
\* the marker or one of its ancestors.
\* Variant: jumps to the destination without the revisions in between.
UpgradeRevsDirect(dest, cur) ==
    IF Len(Lineage(dest)) > Len(Lineage(cur)) THEN <<dest>> ELSE <<>>

\* Variant: walks from the root whatever the marker says.
UpgradeRevsFromRoot(dest, cur) == Lineage(dest)

UpgradeRevs(dest, cur) ==
    LET ld == Lineage(dest)
        lc == Lineage(cur)
    IN IF Len(ld) > Len(lc) THEN SubSeq(ld, Len(lc) + 1, Len(ld)) ELSE <<>>

Reverse(sq) == [i \in 1..Len(sq) |-> sq[Len(sq) + 1 - i]]

\* ScriptDirectory._downgrade_revs for the targets "-1" and "base".
\* Variant: the walk to base takes the revisions oldest first.
DowngradeRevsOldestFirst(target, cur) ==
    IF target.kind = "base" THEN Lineage(cur) ELSE <<cur>>

DowngradeRevs(target, cur) ==
    IF target.kind = "base" THEN Reverse(Lineage(cur)) ELSE <<cur>>

Outcome(err, db, res) ==
    [err |-> err, db |-> db, applied |-> res.applied, failed |-> res.failed]

NoRun == [ok |-> FALSE, st |-> Db, applied |-> <<>>, failed |-> NoRev]

\* command.upgrade(alembic_cfg, revision) on database db.
UpgradeCall(db, target) ==
    IF Dangling(db) \/ (target.kind = "rev" /\ target.rev \notin Revs)
    THEN Outcome("CantLocate", db, NoRun)
    ELSE LET dest == IF target.kind = "head" THEN CurrentHead ELSE target.rev
             res == RunMigrations("up", UpgradeRevs(dest, db.version_num),
                                  EnsureVersionTable(db), <<>>)
         IN Outcome(IF res.ok THEN "none" ELSE "StepFailed",
                    BeginTransaction(db, res), res)

\* command.downgrade(alembic_cfg, revision) on database db.
DowngradeCall(db, target) ==
    IF Dangling(db)
    THEN Outcome("CantLocate", db, NoRun)
    ELSE IF target.kind = "-1" /\ db.version_num = NoRev
    THEN Outcome("RelativeRevision", db, NoRun)
    ELSE LET res == RunMigrations("down", DowngradeRevs(target, db.version_num),
                                  EnsureVersionTable(db), <<>>)
         IN Outcome(IF res.ok THEN "none" ELSE "StepFailed",
                    BeginTransaction(db, res), res)

\* ------------------------------------------------------- diff generator
\* Autogenerate: compares Base.metadata with the reflected live tables
\* (alembic_version excluded) and emits create_table / drop_table.
\* Variant: emits create_table for every model without reflecting the
\* live schema.
DiffWithoutReflection(live) ==
    [creates |-> ManagedTables, drops |-> {}]

Diff(live) ==
    [creates |-> ManagedTables \ live,
     drops |-> (live \ {VersionTable}) \ ManagedTables]

\* util.rev_id(): a fresh identifier, never one handed out before.
RevId == nextRev

\* ScriptDirectory.generate_revision: the new script is placed on the head.
\* Variant: the new script is placed on the database marker.
NewScriptOnMarker(ops) ==
    [revision |-> RevId, down_revision |-> version_num,
     creates |-> ops.creates, drops |-> ops.drops]

NewScript(ops) ==
    [revision |-> RevId, down_revision |-> CurrentHead,
     creates |-> ops.creates, drops |-> ops.drops]

EmptyOps == [creates |-> {}, drops |-> {}]

\* RevisionContext._run_environment: autogenerate refuses a database whose
\* marker is not the head of the script directory.
\* Variant: the check is left out.
UpToDateUnchecked(db) == TRUE

UpToDate(db) == ({db.version_num} \ {NoRev}) = ({CurrentHead} \ {NoRev})

\* command.revision(alembic_cfg, message, autogenerate) on database db:
\* the error, the database afterwards and the script written (if any).
RevisionCall(db, autogenerate) ==
    IF ~autogenerate
    THEN [err |-> "none", db |-> db, script |-> {NewScript(EmptyOps)}]
    ELSE IF Dangling(db)
    THEN [err |-> "CantLocate", db |-> db, script |-> {}]
    ELSE IF ~UpToDate(db)
    THEN [err |-> "NotUpToDate", db |-> db, script |-> {}]
    ELSE [err |-> "none", db |-> EnsureVersionTable(db),
          script |-> {NewScript(Diff(db.tables))}]

\* -------------------------------------------------- reset / introspection
\* The three conn.execute() calls of reset_database(), in order, each with
\* the objects its DROP ... IF EXISTS ... CASCADE statements name.
ResetStatements ==
    << [tables |-> {VersionTable}, types |-> {}],
       [tables |-> ResetDropTables \ {VersionTable}, types |-> {}],
       [tables |-> {}, types |-> ResetDropTypes] >>

\* One conn.execute(): what exists of the named objects is dropped; the
\* marker row goes with the tracking table.
ExecuteDrop(stmt, st) ==
    [tables |-> st.tables \ stmt.tables,
     types |-> st.types \ stmt.types,
     version_num |-> IF VersionTable \in stmt.tables THEN NoRev ELSE st.version_num]

\* The state inside the connection after the first n conn.execute() calls.
RECURSIVE ExecuteDrops(_, _)
ExecuteDrops(db, n) ==
    IF n = 0 THEN db ELSE ExecuteDrop(ResetStatements[n], ExecuteDrops(db, n - 1))

\* The state after all statements of reset_database().
ResetDatabaseState(db) == ExecuteDrops(db, Len(ResetStatements))

\* A call argument: the conn.execute() that raises (lock timeout, missing
\* privilege, lost connection), 0 when none does.
StatementFails(k) == [kind |-> IF k = 0 THEN "none" ELSE "fails", rev |-> k]

\* `with engine.connect() as conn: ...; conn.commit()`: the statements run in
\* the transaction the connection begins at the first execute(); it is
\* committed by the trailing conn.commit() and rolled back when the block is
\* left by an exception.
\* Variant: an autocommit connection, every executed statement stays.
ConnectAutocommit(db, fail) ==
    IF fail = 0 THEN ResetDatabaseState(db) ELSE ExecuteDrops(db, fail - 1)

Connect(db, fail) ==
    IF fail = 0 THEN ResetDatabaseState(db) ELSE db

\* A call argument: whether os.remove / shutil.rmtree succeed on the items of
\* the versions directory (they raise when the directory is not writable).
Removable(b) == [kind |-> IF b THEN "none" ELSE "unremovable", rev |-> NoRev]

\* What reset_migrations() leaves in the versions directory: an item whose
\* removal raises stays (the exception is caught and printed as a warning).
ResetMigrationsFiles(dir, removable) == IF removable THEN {} ELSE dir

\* Migrator.history(): command.history prints one line per revision, walking
\* the script directory from the head down to the root.
history == Reverse(Lineage(CurrentHead))

\* Migrator.get_tables(): every table of schema public.
get_tables == tables

\* Migrator.is_database_clean()
is_database_clean == Cardinality(tables) = 0

\* Migrator.is_migrations_clean()
is_migrations_clean == versions = {}

\* ---------------------------------------------------------------- calls
Pre == [db |-> Db, revs |-> Revs, head |-> CurrentHead]

Record(op, arg, err, ret, applied, failed) ==
    /\ last' = [op |-> op, arg |-> arg, err |-> err, ret |-> ret,
                applied |-> applied, failed |-> failed, pre |-> Pre]
    /\ prev' = [op |-> last.op, arg |-> last.arg, err |-> last.err, ret |-> last.ret]

SetDb(db) ==
    /\ tables' = db.tables
    /\ types' = db.types
    /\ version_num' = db.version_num

\* PGListener.__init__: no connection, no callback, not running, no thread.
ListenerInit ==
    /\ conn = "none"
    /\ callbacks = {}
    /\ running = FALSE
    /\ loop = "idle"
    /\ in_thread = FALSE
    /\ caller = "idle"
    /\ socket = <<>>
    /\ notifies = <<>>
    /\ delivered = <<>>
    /\ sent = 0
    /\ stop_requested = FALSE
    /\ lcall = [op |-> "init", arg |-> "", err |-> "none"]

\* The tables right after they were created: no row.
TablesInit ==
    /\ images = {}
    /\ subscription_types = {}
    /\ users = {}
    /\ subscriptions = {}
    /\ containers = {}
    /\ orders = {}
    /\ lsync = [op |-> "init", table |-> "", file |-> "", state_list_names |-> {},
                err |-> "none"]
    /\ lop = [op |-> "init", arg |-> [user |-> 0, ref |-> 0], success |-> TRUE,
              removed |-> 0, key |-> ""]
    /\ session = "none"

\* Labels of containerstatus that revision 093e4526fa42 created, the ones
\* downgrade() of 089fb8e7c9e2 creates again.
OldStatus == {"RUNNING", "STOPPED", "FAILED", "DELETED"}

\* A database at revision 093e4526fa42: the old enum, no container yet, no
\* trigger.
StatusInit ==
    /\ containerstatus = OldStatus
    /\ container_rows = {}
    /\ schema_rev = 1
    /\ trigger = FALSE
    /\ notified = {}
    /\ clock = 0
    /\ lrev = [op |-> "init", from |-> 0, rev |-> 0, err |-> "none", pre |-> {},
               matched |-> 0, changed |-> 0]

Init ==
    /\ versions = {}
    /\ nextRev = 1
    /\ tables = {}
    /\ types = {}
    /\ version_num = NoRev
    /\ last = [op |-> "init", arg |-> NoArg, err |-> "none", ret |-> NoRev,
               applied |-> <<>>, failed |-> NoRev,
               pre |-> [db |-> [tables |-> {}, types |-> {}, version_num |-> NoRev],
                        revs |-> {}, head |-> NoRev]]
    /\ prev = [op |-> "init", arg |-> NoArg, err |-> "none", ret |-> NoRev]
    /\ ListenerInit
    /\ TablesInit
    /\ StatusInit

\* Migrator.upgrade(revision)
upgrade(target) ==
    LET r == UpgradeCall(Db, target)
    IN /\ SetDb(r.db)
       /\ Record("upgrade", target, r.err, NoRev, r.applied, r.failed)
       /\ UNCHANGED <<versions, nextRev, listenerVars, tableVars>>

\* Migrator.downgrade(revision)
downgrade(target) ==
    LET r == DowngradeCall(Db, target)
    IN /\ SetDb(r.db)
       /\ Record("downgrade", target, r.err, NoRev, r.applied, r.failed)
       /\ UNCHANGED <<versions, nextRev, listenerVars, tableVars>>

\* Migrator.revision(message, autogenerate)
revision(autogenerate) ==
    LET r == RevisionCall(Db, autogenerate)
    IN /\ r.script # {} => nextRev <= MaxRevs
       /\ SetDb(r.db)
       /\ versions' = versions \cup r.script
       /\ nextRev' = IF r.script = {} THEN nextRev ELSE nextRev + 1
       /\ Record("revision", Autogenerate(autogenerate), r.err,
                 IF r.script = {} THEN NoRev ELSE RevId, <<>>, NoRev)
       /\ UNCHANGED <<listenerVars, tableVars>>

\* Migrator.reset_database(); the exception of a failing statement propagates.
reset_database(fail) ==
    /\ SetDb(Connect(Db, fail))
    /\ Record("reset_database", StatementFails(fail),
              IF fail = 0 THEN "none" ELSE "DropFailed", NoRev, <<>>, NoRev)
    /\ UNCHANGED <<versions, nextRev, listenerVars, tableVars>>

\* Variant: also drops the tracking table.
reset_migrations_and_marker(removable) ==
    /\ versions' = ResetMigrationsFiles(versions, removable)
    /\ SetDb([Db EXCEPT !.tables = @ \ {VersionTable}, !.version_num = NoRev])
    /\ Record("reset_migrations", Removable(removable), "none", NoRev, <<>>, NoRev)
    /\ UNCHANGED <<nextRev, listenerVars, tableVars>>

\* Migrator.reset_migrations(); it returns normally whatever was removed.
reset_migrations(removable) ==
    /\ versions' = ResetMigrationsFiles(versions, removable)
    /\ Record("reset_migrations", Removable(removable), "none", NoRev, <<>>, NoRev)
    /\ UNCHANGED <<nextRev, tables, types, version_num, listenerVars,
                   tableVars>>

UpgradeTargets == {TargetHead} \cup {TargetRev(r) : r \in 1..MaxRevs}

DowngradeTargets == {TargetPrevious, TargetBase}

Next ==
    \/ \E t \in UpgradeTargets : upgrade(t)
    \/ \E t \in DowngradeTargets : downgrade(t)
    \/ \E a \in BOOLEAN : revision(a)
    \/ \E fail \in 0..Len(ResetStatements) : reset_database(fail)
    \/ \E removable \in BOOLEAN : reset_migrations(removable)

Spec == Init /\ [][Next]_vars

TypeOK ==
    /\ tables \subseteq ManagedTables \cup {VersionTable}
    /\ types \subseteq ResetDropTypes
    /\ version_num \in 0..MaxRevs
    /\ nextRev \in 1..(MaxRevs + 1)
    /\ version_num # NoRev => VersionTable \in tables

\* ------------------------------------------------------------ PGListener
\* Number of notifications the server sends in one run.
MaxNotifies == 2

\* Channels a caller subscribes to.
Channels == {"container_status_change", "other_channel"}

LCall(op, arg, err) == lcall' = [op |-> op, arg |-> arg, err |-> err]

\* run() has been entered and has neither returned nor raised.
LoopAlive == loop \in {"entry", "set", "test", "select", "poll", "dispatch"}

\* self._thread.is_alive()
ThreadAlive == in_thread /\ LoopAlive

\* PGListener.connect() on a listener without connection; psycopg2.connect
\* either returns a connection or raises.
connect(ok) ==
    /\ caller = "idle"
    /\ conn = "none"
    /\ conn' = IF ok THEN "open" ELSE "none"
    /\ LCall("connect", "", IF ok THEN "none" ELSE "OperationalError")
    /\ UNCHANGED <<callbacks, running, loop, in_thread, caller, socket, notifies,
                   delivered, sent, stop_requested>>

\* The end of disconnect(): the connection is closed and forgotten, the
\* callbacks are cleared.
Close ==
    /\ conn' = "none"
    /\ callbacks' = {}
    /\ socket' = <<>>
    /\ notifies' = <<>>

\* PGListener.disconnect() up to self._thread.join(timeout=2); without a live
\* thread the whole method.
disconnect ==
    /\ caller = "idle"
    /\ running' = FALSE
    /\ IF ThreadAlive
       THEN caller' = "joining" /\ UNCHANGED <<conn, callbacks, socket, notifies>>
       ELSE Close /\ UNCHANGED caller
    /\ LCall("disconnect", "", "none")
    /\ UNCHANGED <<loop, in_thread, delivered, sent, stop_requested>>

\* PGListener.disconnect() after the join: it returned because the thread
\* ended or because its timeout of 2 seconds expired.
disconnect_after_join ==
    /\ caller = "joining"
    /\ caller' = "idle"
    /\ Close
    /\ LCall("disconnect", "joined", "none")
    /\ UNCHANGED <<running, loop, in_thread, delivered, sent, stop_requested>>

\* Variant: the callback is registered without looking at the connection.
listen_unchecked(channel) ==
    /\ caller = "idle"
    /\ callbacks' = callbacks \cup {channel}
    /\ LCall("listen", channel, "none")
    /\ UNCHANGED <<conn, running, loop, in_thread, caller, socket, notifies,
                   delivered, sent, stop_requested>>

\* PGListener.listen(channel, callback)
listen(channel) ==
    /\ caller = "idle"
    /\ IF conn = "none"
       THEN /\ LCall("listen", channel, "RuntimeError")
            /\ UNCHANGED callbacks
       ELSE /\ callbacks' = callbacks \cup {channel}
            /\ LCall("listen", channel, "none")
    /\ UNCHANGED <<conn, running, loop, in_thread, caller, socket, notifies,
                   delivered, sent, stop_requested>>

\* PGListener.unlisten(channel)
unlisten(channel) ==
    /\ caller = "idle"
    /\ callbacks' = IF conn = "none" THEN callbacks ELSE callbacks \ {channel}
    /\ LCall("unlisten", channel, "none")
    /\ UNCHANGED <<conn, running, loop, in_thread, caller, socket, notifies,
                   delivered, sent, stop_requested>>

\* PGListener.run() called directly: the connection check; with a connection
\* the caller goes on into the loop and stays there.
run ==
    /\ caller = "idle"
    /\ ~LoopAlive
    /\ IF conn = "none"
       THEN /\ LCall("run", "", "RuntimeError")
            /\ UNCHANGED <<loop, in_thread, caller, stop_requested>>
       ELSE /\ loop' = "set"
            /\ in_thread' = FALSE
            /\ caller' = "running"
            /\ stop_requested' = FALSE
            /\ LCall("run", "", "none")
    /\ UNCHANGED <<conn, callbacks, running, socket, notifies, delivered, sent>>

\* PGListener.run_in_thread(): the thread is created and started, run() is
\* executed by it later.
run_in_thread ==
    /\ caller = "idle"
    /\ ~LoopAlive
    /\ loop' = "entry"
    /\ in_thread' = TRUE
    /\ stop_requested' = FALSE
    /\ LCall("run_in_thread", "", "none")
    /\ UNCHANGED <<conn, callbacks, running, caller, socket, notifies, delivered, sent>>

\* PGListener.stop(), from the thread that started the loop or, while that
\* one is inside run(), from another one.
stop ==
    /\ caller \in {"idle", "running"}
    /\ running' = FALSE
    /\ stop_requested' = TRUE
    /\ LCall("stop", "", "none")
    /\ UNCHANGED <<conn, callbacks, loop, in_thread, caller, socket, notifies,
                   delivered, sent>>

\* run() is left, by return or by an exception: a caller that was inside it
\* gets control back.
Leave(how) ==
    /\ loop' = how
    /\ caller' = IF caller = "running" THEN "idle" ELSE caller

\* run() in the thread, line `if not self._conn: raise RuntimeError`.
RunEntry ==
    /\ loop = "entry"
    /\ IF conn = "none" THEN Leave("raised") ELSE loop' = "set" /\ UNCHANGED caller
    /\ LCall("loop", "entry", IF conn = "none" THEN "RuntimeError" ELSE "none")
    /\ UNCHANGED <<conn, callbacks, running, in_thread, socket, notifies, delivered,
                   sent, stop_requested>>

\* run(), line `self._running = True`.
RunSet ==
    /\ loop = "set"
    /\ running' = TRUE
    /\ loop' = "test"
    /\ LCall("loop", "set", "none")
    /\ UNCHANGED <<conn, callbacks, in_thread, caller, socket, notifies, delivered,
                   sent, stop_requested>>

\* run(), line `while self._running:`.
RunTest ==
    /\ loop = "test"
    /\ IF running THEN loop' = "select" /\ UNCHANGED caller ELSE Leave("returned")
    /\ LCall("loop", "test", "none")
    /\ UNCHANGED <<conn, callbacks, running, in_thread, socket, notifies, delivered,
                   sent, stop_requested>>

\* run(), line `select.select([self._conn], [], [], timeout)`: it raises on a
\* connection that is gone, returns empty lists when the timeout expires
\* with nothing to read, and the connection when there is something to read.
RunSelect ==
    /\ loop = "select"
    /\ IF conn = "none" THEN Leave("raised")
       ELSE /\ loop' = IF socket = <<>> THEN "test" ELSE "poll"
            /\ UNCHANGED caller
    /\ LCall("loop", "select", IF conn = "none" THEN "TypeError" ELSE "none")
    /\ UNCHANGED <<conn, callbacks, running, in_thread, socket, notifies, delivered,
                   sent, stop_requested>>

\* run(), line `self._conn.poll()`: what the server sent is moved to
\* self._conn.notifies.
RunPoll ==
    /\ loop = "poll"
    /\ IF conn = "none"
       THEN Leave("raised") /\ UNCHANGED <<socket, notifies>>
       ELSE /\ notifies' = notifies \o socket
            /\ socket' = <<>>
            /\ loop' = "dispatch"
            /\ UNCHANGED caller
    /\ LCall("loop", "poll", IF conn = "none" THEN "AttributeError" ELSE "none")
    /\ UNCHANGED <<conn, callbacks, running, in_thread, delivered, sent, stop_requested>>

\* The call of a callback with a notification, and whether it raised.
Called(notify, raises) ==
    [channel |-> notify.channel, id |-> notify.id, raised |-> raises]

\* Variant: no try/except around the call, the exception of a callback ends
\* run().
RunDispatchUncaught ==
    /\ loop = "dispatch"
    /\ \E raises \in BOOLEAN :
         IF conn = "none"
         THEN Leave("raised") /\ UNCHANGED <<notifies, delivered>>
         ELSE IF notifies = <<>>
         THEN loop' = "test" /\ UNCHANGED <<caller, notifies, delivered>>
         ELSE /\ notifies' = Tail(notifies)
              /\ IF Head(notifies).channel \in callbacks
                 THEN /\ delivered' = Append(delivered, Called(Head(notifies), raises))
                      /\ IF raises THEN Leave("raised") ELSE UNCHANGED <<loop, caller>>
                 ELSE UNCHANGED <<delivered, loop, caller>>
    /\ LCall("loop", "dispatch", IF conn = "none" THEN "AttributeError" ELSE "none")
    /\ UNCHANGED <<conn, callbacks, running, in_thread, socket, sent, stop_requested>>

\* run(), one round of `while self._conn.notifies:`: the first notification
\* is popped and handed to the callback of its channel if one is registered;
\* an exception of the callback is caught and printed.
RunDispatch ==
    /\ loop = "dispatch"
    /\ \E raises \in BOOLEAN :
         IF conn = "none"
         THEN Leave("raised") /\ UNCHANGED <<notifies, delivered>>
         ELSE IF notifies = <<>>
         THEN loop' = "test" /\ UNCHANGED <<caller, notifies, delivered>>
         ELSE /\ notifies' = Tail(notifies)
              /\ delivered' = IF Head(notifies).channel \in callbacks
                               THEN Append(delivered, Called(Head(notifies), raises))
                               ELSE delivered
              /\ UNCHANGED <<loop, caller>>
    /\ LCall("loop", "dispatch", IF conn = "none" THEN "AttributeError" ELSE "none")
    /\ UNCHANGED <<conn, callbacks, running, in_thread, socket, sent, stop_requested>>

\* The steps of the execution of run().
RunStep == RunEntry \/ RunSet \/ RunTest \/ RunSelect \/ RunPoll \/ RunDispatch

\* The server sends a notification on a channel the connection listens on
\* (pg_notify of the trigger, or NOTIFY).
Notify(channel) ==
    /\ conn = "open"
    /\ channel \in callbacks
    /\ sent < MaxNotifies
    /\ socket' = Append(socket, [channel |-> channel, id |-> sent + 1])
    /\ sent' = sent + 1
    /\ LCall("notify", channel, "none")
    /\ UNCHANGED <<conn, callbacks, running, loop, in_thread, caller, notifies,
                   delivered, stop_requested>>

ListenerNext ==
    \/ \E ok \in BOOLEAN : connect(ok) /\ UNCHANGED <<migratorVars, tableVars>>
    \/ disconnect /\ UNCHANGED <<migratorVars, tableVars>>
    \/ disconnect_after_join /\ UNCHANGED <<migratorVars, tableVars>>
    \/ \E ch \in Channels : listen(ch) /\ UNCHANGED <<migratorVars, tableVars>>
    \/ \E ch \in Channels : unlisten(ch) /\ UNCHANGED <<migratorVars, tableVars>>
    \/ run /\ UNCHANGED <<migratorVars, tableVars>>
    \/ run_in_thread /\ UNCHANGED <<migratorVars, tableVars>>
    \/ stop /\ UNCHANGED <<migratorVars, tableVars>>
    \/ RunStep /\ UNCHANGED <<migratorVars, tableVars>>
    \/ \E ch \in Channels : Notify(ch) /\ UNCHANGED <<migratorVars, tableVars>>

SpecListener == Init /\ [][ListenerNext]_vars

\* The thread that executes run() is scheduled again and again, and select
\* returns at the latest when its timeout expires.
SpecListenerFair == SpecListener /\ WF_vars(RunStep /\ UNCHANGED <<migratorVars, tableVars>>)

\* ------------------------------------------- reference data and its sync
\* Longest state list (the JSON file of a table) handed to a sync.
MaxItems == 2

\* Values of column name, and of the other column a state item carries:
\* `image` of an image, `type` of a subscription type (here: tag).
Names == {"basic", "pro"}

Tags == {"t1", "t2"}

Items == [name : Names, tag : Tags]

\* Lists a state file may hold.
StateLists == UNION {[1..n -> Items] : n \in 0..MaxItems}

\* A state file: missing, not valid JSON, valid JSON that is not a list (an
\* object), or a list of items.
StateFiles ==
    {[kind |-> k, data |-> <<>>] : k \in {"missing", "invalid", "object"}}
        \cup {[kind |-> "list", data |-> l] : l \in StateLists}

\* DBStateManager.load_json_file: the list of the file, the empty list for
\* every file that does not hold one.
load_json_file(file) == IF file.kind = "list" THEN file.data ELSE <<>>

\* Orders in which a Python set of names is iterated.
NameOrders == {<<"basic", "pro">>, <<"pro", "basic">>}

Table(table) == IF table = "images" THEN images ELSE subscription_types

\* The column with a unique constraint: images.name, subscription_types.type.
UniqueColumn(table, r) == IF table = "images" THEN r.name ELSE r.tag

\* ImageOps.insert / SubscriptionTypeOps.insert: the error of the
\* OperationResult ("" when the row was committed) and the rows afterwards.
Insert(table, rows, item) ==
    LET row == [name |-> item.name, tag |-> item.tag, is_active |-> TRUE]
    IN IF \E r \in rows : UniqueColumn(table, r) = UniqueColumn(table, row)
       THEN [error |-> "IntegrityError", rows |-> rows]
       ELSE [error |-> "", rows |-> rows \cup {row}]

\* ImageOps.update / SubscriptionTypeOps.update with filters {"name": name}:
\* the matching rows with the columns of fields replaced.  ImageOps works on
\* the first match and reports a missing one, SubscriptionTypeOps is a bulk
\* UPDATE of all matches.
Update(table, rows, name, fields) ==
    LET matched == {r \in rows : r.name = name}
        others == rows \ matched
        changed == {[k \in DOMAIN r |->
                       IF k \in DOMAIN fields THEN fields[k] ELSE r[k]] : r \in matched}
    IN IF table = "images" /\ matched = {}
       THEN [error |-> "Image not found", rows |-> rows]
       ELSE IF \/ Cardinality(changed) < Cardinality(matched)
               \/ \E c \in changed : \E o \in others :
                      UniqueColumn(table, c) = UniqueColumn(table, o)
       THEN [error |-> "IntegrityError", rows |-> rows]
       ELSE [error |-> "", rows |-> others \cup changed]

\* Variant: the matching rows are removed.
SoftDeleteRemoves(table, rows, name) ==
    [error |-> "", rows |-> {r \in rows : r.name # name}]

\* ImageOps.soft_delete / SubscriptionTypeOps.soft_delete
SoftDelete(table, rows, name) ==
    Update(table, rows, name, [is_active |-> FALSE])

\* ImageOps.delete / SubscriptionTypeOps.delete with filters {"name": name}
Delete(table, rows, name) ==
    LET matched == {r \in rows : r.name = name}
    IN IF table = "images" /\ matched = {}
       THEN [error |-> "Image not found", rows |-> rows]
       ELSE [error |-> "", rows |-> rows \ matched]

\* DBStateManager: {item["name"]: item for item in state_list}[name], the
\* last item of that name.
ItemOf(state_list, name) ==
    state_list[CHOOSE i \in DOMAIN state_list :
                  /\ state_list[i].name = name
                  /\ \A j \in DOMAIN state_list : j > i => state_list[j].name # name]

\* DBStateManager.find_differences
find_differences(state_list, db_list) ==
    LET state_list_names == {state_list[i].name : i \in DOMAIN state_list}
        db_list_names == {r.name : r \in db_list}
    IN [unique_to_state_list |-> state_list_names \ db_list_names,
        unique_to_db_list |-> db_list_names \ state_list_names,
        common_to_state_db_list |-> state_list_names \cap db_list_names]

\* The names of a set in the order of iteration ord.
InOrder(names, ord) == SelectSeq(ord, LAMBDA n : n \in names)

\* The loop of create_items / update_items / delete_items over names: one
\* operation per name, each committed on its own; the first one that
\* reports an error raises and ends the loop.
RECURSIVE ForEachName(_, _, _, _, _)
ForEachName(what, table, names, state_list, res) ==
    IF res.error # "" \/ names = <<>> THEN res
    ELSE ForEachName(what, table, Tail(names), state_list,
            CASE what = "create" ->
                   Insert(table, res.rows, ItemOf(state_list, Head(names)))
              [] what = "update" ->
                   Update(table, res.rows, Head(names), ItemOf(state_list, Head(names)))
              [] what = "delete" ->
                   SoftDelete(table, res.rows, Head(names)))

\* Variant: only the first new item is inserted.
create_items_first_only(state_list, table, differences, ord, res) ==
    ForEachName("create", table,
                SubSeq(InOrder(differences.unique_to_state_list, ord), 1, 1),
                state_list, res)

\* DBStateManager.create_items
create_items(state_list, table, differences, ord, res) ==
    ForEachName("create", table, InOrder(differences.unique_to_state_list, ord),
                state_list, res)

\* DBStateManager.update_items
update_items(state_list, table, differences, ord, res) ==
    ForEachName("update", table, InOrder(differences.common_to_state_db_list, ord),
                state_list, res)

\* DBStateManager.delete_items
delete_items(state_list, table, differences, ord, res) ==
    ForEachName("delete", table, InOrder(differences.unique_to_db_list, ord),
                state_list, res)

\* Variant: get_state_list hands on an empty list.
SyncEmptyListToo(table, db_list, state_list, ord) ==
    LET d == find_differences(state_list, db_list)
        c == create_items(state_list, table, d, ord, [error |-> "", rows |-> db_list])
        u == update_items(state_list, table, d, ord, c)
    IN delete_items(state_list, table, d, ord, u)

\* update_images / update_subscription_types: get_state_list (raises on an
\* empty list), get_db_list, find_differences, then the three loops.
Sync(table, db_list, state_list, ord) ==
    IF state_list = <<>>
    THEN [error |-> "ValueError", rows |-> db_list]
    ELSE LET d == find_differences(state_list, db_list)
             c == create_items(state_list, table, d, ord,
                               [error |-> "", rows |-> db_list])
             u == update_items(state_list, table, d, ord, c)
         IN delete_items(state_list, table, d, ord, u)

LSync(op, table, file, state_list, err) ==
    lsync' = [op |-> op, table |-> table, file |-> file,
              state_list_names |-> {state_list[i].name : i \in DOMAIN state_list},
              err |-> err]

\* update_images(db_state_manager) with states/images.json being file.
update_images(file, ord) ==
    LET state_list == load_json_file(file)
        r == Sync("images", images, state_list, ord)
    IN /\ images' = r.rows
       /\ LSync("update_images", "images", file.kind, state_list, r.error)
       /\ UNCHANGED subscription_types

\* update_subscription_types(db_state_manager) with
\* states/subscription_types.json being file.
update_subscription_types(file, ord) ==
    LET state_list == load_json_file(file)
        r == Sync("subscription_types", subscription_types, state_list, ord)
    IN /\ subscription_types' = r.rows
       /\ LSync("update_subscription_types", "subscription_types", file.kind,
                state_list, r.error)
       /\ UNCHANGED images

SetTable(table, rows) ==
    IF table = "images"
    THEN images' = rows /\ UNCHANGED subscription_types
    ELSE subscription_types' = rows /\ UNCHANGED images

\* ImageOps.insert(data) / SubscriptionTypeOps.insert(data) called directly.
insert(table, item) ==
    LET r == Insert(table, Table(table), item)
    IN SetTable(table, r.rows) /\ LSync("insert", table, "", <<>>, r.error)

\* ImageOps.delete / SubscriptionTypeOps.delete called directly.
delete(table, name) ==
    LET r == Delete(table, Table(table), name)
    IN SetTable(table, r.rows) /\ LSync("delete", table, "", <<>>, r.error)

SyncTables == {"images", "subscription_types"}

SyncNext ==
    \/ \E file \in StateFiles : \E ord \in NameOrders :
          update_images(file, ord) /\ UNCHANGED <<migratorVars, listenerVars, opsVars, statusVars, session>>
    \/ \E file \in StateFiles : \E ord \in NameOrders :
          update_subscription_types(file, ord)
              /\ UNCHANGED <<migratorVars, listenerVars, opsVars, statusVars, session>>
    \/ \E t \in SyncTables : \E item \in Items :
          insert(t, item) /\ UNCHANGED <<migratorVars, listenerVars, opsVars, statusVars, session>>
    \/ \E t \in SyncTables : \E n \in Names :
          delete(t, n) /\ UNCHANGED <<migratorVars, listenerVars, opsVars, statusVars, session>>

SpecSync == Init /\ [][SyncNext]_vars

\* -------------------------------------------------------------- user data
\* Number of user ids, and of subscription ids, in one run.
MaxUsers == 2

\* Number of order ids in one run.
MaxOrders == 1

UserIds == 1..MaxUsers

SubscriptionIds == 1..MaxUsers

OrderIds == 1..MaxOrders

\* Values of containers.name.
ContainerNames == {"c1"}

\* Status values of a subscription a caller inserts with; soft_delete sets
\* Cancelled.
SubscriptionStatus == {"Active", "Cancelled"}

\* The subscription type the callers of these operations work with.
BasicPlan == [name |-> "basic", tag |-> "t1"]

\* A None foreign key (orders.subscription_id is nullable).
Null == 0

\* The four tables as one value.
Data ==
    [users |-> users, subscriptions |-> subscriptions,
     containers |-> containers, orders |-> orders]

\* filters of a call: {"id": value}, {"user_id": value} or {}; User has no
\* attribute nickname.
ById(v) == [key |-> "id", value |-> v]

ByUserId(v) == [key |-> "user_id", value |-> v]

NoFilter == [key |-> "", value |-> Null]

\* The attributes of the models that the filters of a call name.
Columns ==
    [User |-> {"id"}, SubscriptionType |-> {"id"},
     Subscription |-> {"id", "user_id"}, Container |-> {"id", "user_id"}]

\* `if hasattr(Model, key): query = query.filter(getattr(Model, key) == value)`
\* for each pair of filters: a pair whose key is no attribute of the model
\* adds no condition to the query.
Matches(columns, filters, id, user_id) ==
    \/ filters.key \notin columns
    \/ filters.key = "id" /\ id = filters.value
    \/ filters.key = "user_id" /\ user_id = filters.value

\* ContainerOps: `if hasattr(Container, key) and value is not None`, a pair
\* whose value is None adds no condition either.
MatchesNotNone(filters, id, user_id) ==
    \/ filters.value = Null
    \/ Matches(Columns.Container, filters, id, user_id)

\* The primary key a new row gets (uuid4): one no row of the table has, here
\* the smallest such, Null when the ids of the run are used up.
FreeId(ids, rows) ==
    LET free == ids \ {r.id : r \in rows}
    IN IF free = {} THEN Null ELSE CHOOSE i \in free : \A j \in free : i <= j

\* UniqueConstraint('user_id', name='uq_subscription_user_id') and
\* Column(..., unique=True) of Subscription.user_id.
\* Variant: unique among the subscriptions that are not cancelled.
UniqueUserIdAmongActive(rows, user_id) ==
    ~\E s \in rows : s.user_id = user_id /\ s.status # "Cancelled"

UniqueUserId(rows, user_id) == ~\E s \in rows : s.user_id = user_id

\* SubscriptionOps.insert: session.add + flush raise IntegrityError on a
\* missing user or subscription type and on a second row for the user.
InsertSubscription(db, id, user_id, type_id, status) ==
    IF /\ user_id \in db.users
       /\ \E t \in subscription_types : t.tag = type_id
       /\ UniqueUserId(db.subscriptions, user_id)
    THEN [success |-> TRUE,
          db |-> [db EXCEPT !.subscriptions = @ \cup
                     {[id |-> id, user_id |-> user_id,
                       subscription_type_id |-> type_id, status |-> status]}]]
    ELSE [success |-> FALSE, db |-> db]

\* session.delete(subscription): Subscription.orders has
\* cascade="all, delete-orphan".
DeleteSubscriptions(db, doomed) ==
    [db EXCEPT !.subscriptions = @ \ doomed,
               !.orders = {o \in @ : o.subscription_id \notin {s.id : s \in doomed}}]

\* Variant: DELETE FROM users alone, no cascade to the related rows.
DeleteUsersOnly(db, doomed) == [db EXCEPT !.users = @ \ doomed]

\* session.delete(user) for each matched user: User.containers,
\* User.subscription and User.orders have cascade="all, delete-orphan".
DeleteUsers(db, doomed) ==
    LET subs == {s \in db.subscriptions : s.user_id \in doomed}
        rest == DeleteSubscriptions(db, subs)
    IN [rest EXCEPT !.users = @ \ doomed,
                    !.containers = {c \in @ : c.user_id \notin doomed},
                    !.orders = {o \in @ : o.user_id \notin doomed}]

\* Rows of the three dependent tables.
ChildRows(db) ==
    Cardinality(db.subscriptions) + Cardinality(db.containers) + Cardinality(db.orders)

SetData(db) ==
    /\ users' = db.users
    /\ subscriptions' = db.subscriptions
    /\ containers' = db.containers
    /\ orders' = db.orders

LOp(op, key, user, ref, success, removed) ==
    lop' = [op |-> op, arg |-> [user |-> user, ref |-> ref], success |-> success,
            removed |-> removed, key |-> key]

\* UserOps.insert(data)
UserOps_insert(u) ==
    /\ u \notin users
    /\ SetData([Data EXCEPT !.users = @ \cup {u}])
    /\ LOp("UserOps.insert", "", Null, Null, TRUE, 0)
    /\ UNCHANGED syncVars

\* UserOps.delete(filters)
UserOps_delete(filters) ==
    LET doomed == {u \in users : Matches(Columns.User, filters, u, Null)}
        db == DeleteUsers(Data, doomed)
    IN /\ SetData(db)
       /\ LOp("UserOps.delete", filters.key, filters.value, Null, TRUE, ChildRows(Data) - ChildRows(db))
       /\ UNCHANGED syncVars

\* SubscriptionTypeOps.insert(data) of the plan.
SubscriptionTypeOps_insert ==
    /\ subscription_types' = Insert("subscription_types", subscription_types, BasicPlan).rows
    /\ LOp("SubscriptionTypeOps.insert", "", Null, Null,
           Insert("subscription_types", subscription_types, BasicPlan).error = "", 0)
    /\ UNCHANGED <<users, subscriptions, containers, orders, images, lsync>>

\* session.delete(subscription_type) for each matched type, then commit:
\* SubscriptionType.subscriptions and SubscriptionType.orders carry no
\* delete cascade, so the flush sets subscription_type_id of the referring
\* rows to NULL; the column is NOT NULL, the commit raises IntegrityError
\* and the session is rolled back.
DeleteSubscriptionTypes(db, rows, doomed) ==
    LET ids == {t.tag : t \in doomed}
        referred == \/ \E s \in db.subscriptions : s.subscription_type_id \in ids
                    \/ \E o \in db.orders : o.subscription_type_id \in ids
    IN IF referred THEN [success |-> FALSE, rows |-> rows]
                   ELSE [success |-> TRUE, rows |-> rows \ doomed]

\* SubscriptionTypeOps.delete(filters)
SubscriptionTypeOps_delete(filters) ==
    LET doomed == {t \in subscription_types : Matches(Columns.SubscriptionType, filters, t.tag, Null)}
        r == DeleteSubscriptionTypes(Data, subscription_types, doomed)
    IN /\ subscription_types' = r.rows
       /\ LOp("SubscriptionTypeOps.delete", "", Null, Null, r.success, 0)
       /\ UNCHANGED <<users, subscriptions, containers, orders, images, lsync>>

\* SubscriptionOps.insert(data)
SubscriptionOps_insert(user_id, type_id, status) ==
    LET id == FreeId(SubscriptionIds, subscriptions)
    IN  LET r == InsertSubscription(Data, id, user_id, type_id, status)
        IN /\ r.success => id # Null
           /\ SetData(r.db)
           /\ LOp("SubscriptionOps.insert", "", user_id, type_id, r.success, 0)
           /\ UNCHANGED syncVars

\* SubscriptionOps.soft_delete(filters)
SubscriptionOps_soft_delete(filters) ==
    /\ subscriptions' =
           {IF Matches(Columns.Subscription, filters, s.id, s.user_id) THEN [s EXCEPT !.status = "Cancelled"] ELSE s :
               s \in subscriptions}
    /\ LOp("SubscriptionOps.soft_delete", "", Null, Null, TRUE, 0)
    /\ UNCHANGED <<users, containers, orders, syncVars>>

\* SubscriptionOps.delete(filters)
SubscriptionOps_delete(filters) ==
    LET doomed == {s \in subscriptions : Matches(Columns.Subscription, filters, s.id, s.user_id)}
        db == DeleteSubscriptions(Data, doomed)
    IN /\ SetData(db)
       /\ LOp("SubscriptionOps.delete", "", Null, Null, TRUE, 0)
       /\ UNCHANGED syncVars

\* ContainerOps.insert(data): IntegrityError on a missing user and on a
\* second container of that name for the user (uq_container_user_name).
ContainerOps_insert(user_id, name) ==
    LET ok == user_id \in users /\ [user_id |-> user_id, name |-> name] \notin containers
    IN /\ containers' = IF ok THEN containers \cup {[user_id |-> user_id, name |-> name]}
                               ELSE containers
       /\ LOp("ContainerOps.insert", "", Null, Null, ok, 0)
       /\ UNCHANGED <<users, subscriptions, orders, syncVars>>

\* ContainerOps.delete(filters): query.delete() of the matched rows.
ContainerOps_delete(filters) ==
    LET doomed == {c \in containers : MatchesNotNone(filters, Null, c.user_id)}
    IN /\ containers' = containers \ doomed
       /\ LOp("ContainerOps.delete", filters.key, filters.value, Null, TRUE, Cardinality(doomed))
       /\ UNCHANGED <<users, subscriptions, orders, syncVars>>

\* OrdersOps.insert(data): IntegrityError on a missing user, subscription or
\* subscription type.
OrdersOps_insert(user_id, subscription_id, type_id) ==
    LET id == FreeId(OrderIds, orders)
    IN  LET ok == /\ user_id \in users
                  /\ subscription_id = Null \/ \E s \in subscriptions : s.id = subscription_id
                  /\ \E t \in subscription_types : t.tag = type_id
        IN /\ ok => id # Null
           /\ orders' = IF ok THEN orders \cup
                             {[id |-> id, user_id |-> user_id,
                               subscription_id |-> subscription_id,
                               subscription_type_id |-> type_id]}
                         ELSE orders
           /\ LOp("OrdersOps.insert", "", Null, Null, ok, 0)
           /\ UNCHANGED <<users, subscriptions, containers, syncVars>>

OpsNext ==
    \/ \E u \in UserIds :
          UserOps_insert(u) /\ UNCHANGED <<migratorVars, listenerVars, statusVars, session>>
    \/ \E f \in {ById(u) : u \in UserIds} \cup {NoFilter, [key |-> "nickname", value |-> 1]} :
          UserOps_delete(f) /\ UNCHANGED <<migratorVars, listenerVars, statusVars, session>>
    \/ SubscriptionTypeOps_insert /\ UNCHANGED <<migratorVars, listenerVars, statusVars, session>>
    \/ SubscriptionTypeOps_delete(ById(BasicPlan.tag))
          /\ UNCHANGED <<migratorVars, listenerVars, statusVars, session>>
    \/ \E u \in UserIds : \E st \in SubscriptionStatus :
          SubscriptionOps_insert(u, BasicPlan.tag, st)
              /\ UNCHANGED <<migratorVars, listenerVars, statusVars, session>>
    \/ \E u \in UserIds :
          SubscriptionOps_soft_delete(ByUserId(u))
              /\ UNCHANGED <<migratorVars, listenerVars, statusVars, session>>
    \/ \E i \in SubscriptionIds :
          SubscriptionOps_delete(ById(i)) /\ UNCHANGED <<migratorVars, listenerVars, statusVars, session>>
    \/ \E u \in UserIds : \E n \in ContainerNames :
          ContainerOps_insert(u, n) /\ UNCHANGED <<migratorVars, listenerVars, statusVars, session>>
    \/ \E u \in UserIds \cup {Null} :
          ContainerOps_delete(ByUserId(u))
              /\ UNCHANGED <<migratorVars, listenerVars, statusVars, session>>
    \/ \E u \in UserIds : \E i \in SubscriptionIds \cup {Null} :
          OrdersOps_insert(u, i, BasicPlan.tag)
              /\ UNCHANGED <<migratorVars, listenerVars, statusVars, session>>

SpecOps == Init /\ [][OpsNext]_vars

\* SubscriptionOps._convert_filter_value: uuid.UUID(value) for a user_id or
\* subscription_type_id given as str; it raises ValueError on a str that is
\* no UUID, which is the value -1 here.
FilterValueConverts(filters) == filters.value # -1

\* SubscriptionOps.find(filters): the session is obtained, the filters are
\* converted, the query runs and the session is closed.  find catches
\* SQLAlchemyError only: the ValueError of the conversion leaves the method
\* with self.session still set.
SubscriptionOps_find(filters) ==
    /\ session' = IF FilterValueConverts(filters) THEN "none" ELSE "open"
    /\ LOp("SubscriptionOps.find", "", filters.value, Null, FilterValueConverts(filters), 0)
    /\ UNCHANGED <<users, subscriptions, containers, orders, syncVars>>

\* The methods called on one SubscriptionOps object, and what they need of
\* the other ops classes.  insert, soft_delete and delete end in
\* _commit_and_close or _rollback_and_close, which set self.session = None.
SessionNext ==
    \/ \E u \in UserIds :
          UserOps_insert(u) /\ UNCHANGED <<migratorVars, listenerVars, statusVars, session>>
    \/ SubscriptionTypeOps_insert
          /\ UNCHANGED <<migratorVars, listenerVars, statusVars, session>>
    \/ \E u \in UserIds : \E st \in SubscriptionStatus :
          /\ SubscriptionOps_insert(u, BasicPlan.tag, st)
          /\ session' = "none"
          /\ UNCHANGED <<migratorVars, listenerVars, statusVars>>
    \/ \E u \in UserIds :
          /\ SubscriptionOps_soft_delete(ByUserId(u))
          /\ session' = "none"
          /\ UNCHANGED <<migratorVars, listenerVars, statusVars>>
    \/ \E i \in SubscriptionIds :
          /\ SubscriptionOps_delete(ById(i))
          /\ session' = "none"
          /\ UNCHANGED <<migratorVars, listenerVars, statusVars>>
    \/ \E v \in UserIds \cup {-1} :
          SubscriptionOps_find(ByUserId(v))
              /\ UNCHANGED <<migratorVars, listenerVars, statusVars>>

SpecSession == Init /\ [][SessionNext]_vars

\* ------------------------------------------- container status revisions
\* Number of container ids in one run.
MaxContainers == 2

\* Number of successful ContainerOps.update calls in one run.
MaxUpdates == 1

ContainerIds == 1..MaxContainers

\* The hand-written revisions, root first.
RevisionChain == <<"093e4526fa42", "089fb8e7c9e2", "a1b2c3d4e5f6">>

\* Labels of containerstatus that upgrade() of 089fb8e7c9e2 creates: the
\* members of ContainerStatus.
NewStatus == {"PENDING", "RUNNING", "SUCCEEDED", "FAILED", "UNKNOWN"}

\* The part of the database the two revisions and the updates work on.
StatusDb == [enum |-> containerstatus, rows |-> container_rows, trigger |-> trigger]

\* Outcome of a statement: the database after it, or the error that aborts
\* the transaction.
Result(ok, db) == [ok |-> ok, db |-> db]

\* USING CASE ... END of upgrade() of 089fb8e7c9e2.
UsingCase(text) ==
    CASE text = "STOPPED" -> "PENDING"
      [] text = "DELETED" -> "UNKNOWN"
      [] text = "RUNNING" -> "RUNNING"
      [] text = "FAILED" -> "FAILED"
      [] OTHER -> "PENDING"

\* UPDATE containers SET status = value WHERE status = match: both literals
\* are converted to the column's enum type when the statement is analysed,
\* whatever rows the table holds; a text converts to the enum when it is one
\* of its labels, otherwise "invalid input value for enum containerstatus".
UpdateStatusWhere(db, value, match) ==
    IF value \in db.enum /\ match \in db.enum
    THEN Result(TRUE, [db EXCEPT !.rows = {IF r.status = match THEN [r EXCEPT !.status = value]
                                                       ELSE r : r \in db.rows}])
    ELSE Result(FALSE, db)

\* upgrade() of 089fb8e7c9e2: ALTER TYPE containerstatus RENAME TO ...,
\* CREATE TYPE containerstatus AS ENUM (the new labels), ALTER TABLE
\* containers ALTER COLUMN status TYPE containerstatus USING CASE ... END,
\* DROP TYPE ...: every row's value is converted and must be a label of the
\* new type.
upgrade_089fb8e7c9e2(db) ==
    IF \A r \in db.rows : UsingCase(r.status) \in NewStatus
    THEN Result(TRUE, [db EXCEPT !.enum = NewStatus,
                         !.rows = {[r EXCEPT !.status = UsingCase(r.status)] : r \in db.rows}])
    ELSE Result(FALSE, db)

\* downgrade() of 089fb8e7c9e2: the two UPDATE statements, then the column
\* goes back to the old type USING status::text::containerstatus_old; a
\* statement runs when the one before did not raise.
downgrade_089fb8e7c9e2(db) ==
    LET first == UpdateStatusWhere(db, "STOPPED", "PENDING")
        second == IF first.ok THEN UpdateStatusWhere(first.db, "DELETED", "UNKNOWN")
                              ELSE first
    IN IF ~second.ok THEN second
       ELSE IF \A r \in second.db.rows : r.status \in OldStatus
            THEN Result(TRUE, [second.db EXCEPT !.enum = OldStatus])
            ELSE Result(FALSE, second.db)

\* upgrade() of a1b2c3d4e5f6: CREATE OR REPLACE FUNCTION, CREATE TRIGGER
\* (which raises when the trigger exists).
upgrade_a1b2c3d4e5f6(db) ==
    IF db.trigger THEN Result(FALSE, db) ELSE Result(TRUE, [db EXCEPT !.trigger = TRUE])

\* downgrade() of a1b2c3d4e5f6: DROP TRIGGER IF EXISTS, DROP FUNCTION IF EXISTS.
downgrade_a1b2c3d4e5f6(db) == Result(TRUE, [db EXCEPT !.trigger = FALSE])

\* The script functions of the revision at position i of the chain; the root
\* 093e4526fa42 is never run here.
RunScript(direction, i, db) ==
    CASE direction = "upgrade" /\ RevisionChain[i] = "089fb8e7c9e2" -> upgrade_089fb8e7c9e2(db)
      [] direction = "upgrade" /\ RevisionChain[i] = "a1b2c3d4e5f6" -> upgrade_a1b2c3d4e5f6(db)
      [] direction = "downgrade" /\ RevisionChain[i] = "089fb8e7c9e2" -> downgrade_089fb8e7c9e2(db)
      [] direction = "downgrade" /\ RevisionChain[i] = "a1b2c3d4e5f6" -> downgrade_a1b2c3d4e5f6(db)

\* The upgrade walk from position i to position target, one script after the
\* other, stopping at the first that raises.
RECURSIVE UpgradeWalk(_, _, _)
UpgradeWalk(res, i, target) ==
    IF i > target \/ ~res.ok THEN res
    ELSE UpgradeWalk(RunScript("upgrade", i, res.db), i + 1, target)

\* notify_container_status_change(), run AFTER UPDATE FOR EACH ROW: the
\* notifications the row raises.
\* Variant: without the IS DISTINCT FROM test.
NotifyEveryUpdate(old, new) ==
    {[id |-> new.id, user_id |-> new.user_id, name |-> new.name,
      old_status |-> old.status, new_status |-> new.status,
      updated_at |-> new.updated_at]}

notify_container_status_change(old, new) ==
    IF old.status # new.status
    THEN {[id |-> new.id, user_id |-> new.user_id, name |-> new.name,
           old_status |-> old.status, new_status |-> new.status,
           updated_at |-> new.updated_at]}
    ELSE {}

\* The row query.update(update_data) makes of a matched row: status when
\* data has one (a None value is skipped), updated_at always.
UpdatedRow(r, data, now) ==
    [r EXCEPT !.status = IF data.status = "" THEN @ ELSE data.status,
              !.updated_at = now]

\* data of an update: {"status": label}, or other columns only (label "").
StatusData(label) == [status |-> label]


SetStatusDb(db) ==
    /\ containerstatus' = db.enum
    /\ container_rows' = db.rows
    /\ trigger' = db.trigger

LRev(op, from, rev, err, pre, matched, changed) ==
    lrev' = [op |-> op, from |-> from, rev |-> rev, err |-> err, pre |-> pre,
             matched |-> matched, changed |-> changed]

\* Migrator.upgrade(revision) over the hand-written chain: the walk runs in
\* one transaction (env.py), rolled back when a script raises.
upgrade_containers(target) ==
    LET res == UpgradeWalk(Result(TRUE, StatusDb), schema_rev + 1, target)
    IN /\ target > schema_rev
       /\ SetStatusDb(IF res.ok THEN res.db ELSE StatusDb)
       /\ schema_rev' = IF res.ok THEN target ELSE schema_rev
       /\ LRev("upgrade", schema_rev, target, IF res.ok THEN "none" ELSE "StepFailed",
               container_rows, 0, 0)
       /\ UNCHANGED <<notified, clock>>

\* Migrator.downgrade("-1") over the hand-written chain.
downgrade_containers ==
    LET res == RunScript("downgrade", schema_rev, StatusDb)
    IN /\ schema_rev > 1
       /\ SetStatusDb(IF res.ok THEN res.db ELSE StatusDb)
       /\ schema_rev' = IF res.ok THEN schema_rev - 1 ELSE schema_rev
       /\ LRev("downgrade", schema_rev, schema_rev - 1,
               IF res.ok THEN "none" ELSE "StepFailed", container_rows, 0, 0)
       /\ UNCHANGED <<notified, clock>>

\* INSERT of a containers row with the given status (ContainerOps.insert of
\* the release that matches the schema).
insert_container(status) ==
    LET id == FreeId(ContainerIds, container_rows)
        ok == id # Null /\ status \in containerstatus
    IN /\ container_rows' =
              IF ok THEN container_rows \cup
                         {[id |-> id, user_id |-> 1, name |-> "c1", status |-> status,
                           updated_at |-> 0]}
                    ELSE container_rows
       /\ LRev("insert", 0, 0, IF ok THEN "none" ELSE "Failed", {}, 0, 0)
       /\ UNCHANGED <<containerstatus, schema_rev, trigger, notified, clock>>

\* ContainerOps.update(filters, data): one UPDATE statement and its commit;
\* the notifications raised by the trigger are sent at the commit.
ContainerOps_update(filters, data) ==
    LET matched == {r \in container_rows : MatchesNotNone(filters, r.id, r.user_id)}
        ok == data.status = "" \/ data.status \in containerstatus
        now == clock + 1
        raised == IF trigger
                  THEN UNION {notify_container_status_change(r, UpdatedRow(r, data, now)) :
                                 r \in matched}
                  ELSE {}
    IN /\ clock < MaxUpdates
       /\ container_rows' =
              IF ok THEN (container_rows \ matched) \cup
                         {UpdatedRow(r, data, now) : r \in matched}
                    ELSE container_rows
       /\ notified' = IF ok THEN notified \cup raised ELSE notified
       /\ clock' = IF ok THEN now ELSE clock
       /\ LRev("ContainerOps.update", 0, 0, IF ok THEN "none" ELSE "Failed", {},
               Cardinality(matched),
               Cardinality({r \in matched : UpdatedRow(r, data, now).status # r.status}))
       /\ UNCHANGED <<containerstatus, schema_rev, trigger>>

StatusNext ==
    \/ \E target \in 2..Len(RevisionChain) :
          upgrade_containers(target) /\ UNCHANGED <<migratorVars, listenerVars, syncVars, opsVars, session>>
    \/ downgrade_containers /\ UNCHANGED <<migratorVars, listenerVars, syncVars, opsVars, session>>
    \/ \E status \in OldStatus \cup NewStatus :
          insert_container(status) /\ UNCHANGED <<migratorVars, listenerVars, syncVars, opsVars, session>>
    \/ \E f \in {ById(i) : i \in ContainerIds} \cup {NoFilter} :
       \E data \in {StatusData(l) : l \in NewStatus} \cup {StatusData("")} :
          ContainerOps_update(f, data)
              /\ UNCHANGED <<migratorVars, listenerVars, syncVars, opsVars, session>>

SpecStatus == Init /\ [][StatusNext]_vars

\* ============================================================== claims
MarkerValid == version_num = NoRev \/ version_num \in Revs

LastElem(sq) == sq[Len(sq)]

\* C1 (as stated): in every reachable state the marker is absent or is the
\* identifier of a script present in the versions directory.
C1_MarkerAlwaysNamesScript == MarkerValid

\* C1 (amended): revision(), upgrade(), downgrade() and reset_database() never
\* turn a marker that is absent or names a present script into one that names
\* no script; only reset_migrations(), which deletes the scripts and leaves
\* the marker, does.
C1_OnlyResetMigrationsOrphansMarker ==
    [][(MarkerValid /\ last'.op # "reset_migrations") => MarkerValid']_vars

C1_Witness ==
    /\ last.op \in {"upgrade", "downgrade"}
    /\ last.applied # <<>>
    /\ version_num \in Revs

\* The marker as it was inside the transaction right before the failed step.
MarkerBeforeFailedStep ==
    IF last.applied = <<>> THEN last.pre.db.version_num ELSE LastElem(last.applied)

UpgradeStepFailed == last.op = "upgrade" /\ last.err = "StepFailed"

\* C2 (as stated): after a step of upgrade() failed, the marker is the last
\* revision whose step completed (its value right before the failed step).
C2_MarkerAtLastCompletedStep ==
    UpgradeStepFailed => version_num = MarkerBeforeFailedStep

\* C2 (amended): after a step of upgrade() failed the error is raised, the
\* failed step was tried once, and the schema changes of the whole call (the
\* failed step and the steps completed before it) are rolled back: tables,
\* types and marker are what they were before the call.
C2_FailedUpgradeRollsBackWholeCall ==
    UpgradeStepFailed =>
        /\ Db = last.pre.db
        /\ last.failed \in Revs
        /\ ~InSeq(last.failed, last.applied)

C2_Witness == UpgradeStepFailed /\ Len(last.applied) >= 1

\* C3: every step of upgrade(), for any target, goes from a revision to its
\* direct child (from "absent" to the root for the first one), so that the
\* marker only reaches a revision after all revisions between it and the old
\* marker were applied, in chain order.
C3_UpgradeFollowsChainEdges ==
    last.op = "upgrade" =>
        /\ \A i \in 1..Len(last.applied) :
              ScriptOf(last.applied[i]).down_revision =
                  (IF i = 1 THEN last.pre.db.version_num ELSE last.applied[i - 1])
        /\ (last.err = "none" /\ last.applied # <<>>) =>
              version_num = LastElem(last.applied)
        /\ last.applied = <<>> => version_num = last.pre.db.version_num

C3_Witness ==
    /\ last.op = "upgrade"
    /\ last.err = "none"
    /\ last.arg.kind = "rev"
    /\ Len(last.applied) >= 2
    /\ last.pre.db.version_num # NoRev

\* upgrade() with its default target on a database without any table, with
\* a non-empty chain in the versions directory.
UpgradeFromScratch ==
    /\ last.op = "upgrade"
    /\ last.arg = TargetHead
    /\ last.pre.db.tables = {}
    /\ versions # {}

\* Tables the scripts of the chain up to the head create and do not drop.
ChainTables ==
    UNION {s.creates : s \in versions} \ UNION {s.drops : s \in versions}

TwoUpgradesToHead ==
    /\ prev.op = "upgrade" /\ prev.arg = TargetHead
    /\ last.op = "upgrade" /\ last.arg = TargetHead

\* C5 (as stated): the second of two successive upgrade("head") calls leaves
\* marker and schema as the first left them and runs no script's upgrade().
C5_SecondUpgradeRunsNothing ==
    TwoUpgradesToHead => (Db = last.pre.db /\ last.applied = <<>>)

\* C5 (amended): the second of two successive upgrade("head") calls leaves
\* marker and schema as the first left them; when the first call returned
\* normally the second succeeds and runs no script's upgrade() (after a
\* failed first call the second fails the same way and runs again, and rolls
\* back, the steps before the failing one).
C5_SecondUpgradeAfterSuccessRunsNothing ==
    TwoUpgradesToHead =>
        /\ Db = last.pre.db
        /\ last.err = prev.err
        /\ prev.err = "none" => last.applied = <<>>

C5_Witness ==
    /\ TwoUpgradesToHead
    /\ prev.err = "none"
    /\ version_num = CurrentHead
    /\ ManagedTables \subseteq tables

RevisionAutogenerate == last.op = "revision" /\ last.arg = Autogenerate(TRUE)

\* revision(autogenerate=True) called with the database at the head and the
\* live tables equal to the models' tables.
RevisionWithoutChanges ==
    /\ RevisionAutogenerate
    /\ last.pre.head # NoRev
    /\ last.pre.db.version_num = last.pre.head
    /\ ManagedTables = last.pre.db.tables \ {VersionTable}

RevisionBehindHead ==
    /\ last.op = "revision"
    /\ last.pre.head # NoRev
    /\ last.pre.db.version_num # last.pre.head

\* C7 (as stated): revision(autogenerate=True) with the marker not at the
\* head fails with "Target database is not up to date" and adds no script.
C7_BehindHeadIsNotUpToDate ==
    (RevisionBehindHead /\ RevisionAutogenerate) =>
        (last.err = "NotUpToDate" /\ Revs = last.pre.revs)

\* C7 (amended): revision(autogenerate=True) with the marker not at the head
\* fails and adds no script and changes nothing in the database; the error is
\* "Target database is not up to date" when the marker is absent or names a
\* script of the directory, and "Can't locate revision" when it names a
\* script that reset_migrations() has deleted.
C7_BehindHeadFails ==
    (RevisionBehindHead /\ RevisionAutogenerate) =>
        /\ last.err = (IF last.pre.db.version_num \in last.pre.revs \cup {NoRev}
                       THEN "NotUpToDate" ELSE "CantLocate")
        /\ Revs = last.pre.revs
        /\ versions # {}
        /\ last.ret = NoRev
        /\ Db = last.pre.db

C7_Witness ==
    /\ RevisionBehindHead /\ RevisionAutogenerate
    /\ last.err = "NotUpToDate"
    /\ version_num \in Revs

\* C8 (as stated): revision() with the marker behind the head succeeds and
\* writes a new script on top of the current head.
C8_RevisionBehindHeadSucceeds ==
    (RevisionBehindHead /\ last.pre.db.version_num \in last.pre.revs \cup {NoRev}) =>
        /\ last.err = "none"
        /\ ScriptOf(last.ret).down_revision = last.pre.head

\* C8 (amended): revision(autogenerate=False) with the marker behind the head
\* succeeds and writes a new script on top of the current head, which becomes
\* the head; revision(autogenerate=True), the default, fails there.
C8_EmptyRevisionBehindHeadSucceeds ==
    (RevisionBehindHead /\ last.pre.db.version_num \in last.pre.revs \cup {NoRev}) =>
        IF last.arg = Autogenerate(FALSE)
        THEN /\ last.err = "none"
             /\ last.ret \notin last.pre.revs \cup {NoRev}
             /\ Revs = last.pre.revs \cup {last.ret}
             /\ ScriptOf(last.ret).down_revision = last.pre.head
             /\ CurrentHead = last.ret
        ELSE last.err # "none" /\ Revs = last.pre.revs

C8_Witness ==
    /\ RevisionBehindHead
    /\ last.arg = Autogenerate(FALSE)
    /\ last.err = "none"
    /\ last.pre.db.version_num \in last.pre.revs

\* C9: right after reset_database() get_tables() is empty.
C9_ResetDatabaseLeavesNoTable ==
    (last.op = "reset_database" /\ last.err = "none") => get_tables = {}

ResetDatabaseFailed == last.op = "reset_database" /\ last.err = "DropFailed"

\* C11: reset_database() is all-or-nothing: when one of its drop statements
\* fails, no table and no enum type is dropped and the marker is unchanged,
\* whatever the statements before the failing one had dropped.
C11_FailedResetDropsNothing ==
    ResetDatabaseFailed =>
        /\ tables = last.pre.db.tables
        /\ types = last.pre.db.types
        /\ version_num = last.pre.db.version_num

C11_Witness ==
    /\ ResetDatabaseFailed
    /\ last.arg = StatementFails(Len(ResetStatements))
    /\ version_num # NoRev
    /\ "users" \in tables
    /\ ExecuteDrops(last.pre.db, Len(ResetStatements) - 1).tables # tables

\* C12: whenever reset_migrations() returned normally the versions directory
\* holds no item, so that is_migrations_clean() is true.
C12_ResetMigrationsLeavesDirectoryClean ==
    (last.op = "reset_migrations" /\ last.err = "none") => is_migrations_clean

Roots == {s \in versions : s.down_revision = NoRev}

Heads == {r \in Revs : \A s \in versions : s.down_revision # r}

\* One root, one head, every parent pointer resolves, no identifier twice and
\* no cycle (no set of revisions closed under "parent of").
LinearChain ==
    versions = {} \/
        /\ Cardinality(Roots) = 1
        /\ Cardinality(Heads) = 1
        /\ Cardinality(versions) = Cardinality(Revs)
        /\ \A s \in versions : s.down_revision \in Revs \cup {NoRev}
        /\ \A S \in (SUBSET Revs) \ {{}} :
              \E s \in versions : s.revision \in S /\ s.down_revision \notin S

HistoryListsEveryRevision ==
    /\ Len(history) = Cardinality(Revs)
    /\ {history[i] : i \in 1..Len(history)} = Revs

RevisionCreated == last.op = "revision" /\ last.ret # NoRev

\* C14: every script written by revision() has as parent the head the
\* versions directory had at the time of the call (none when the directory
\* was empty), also when the database marker was another revision.
C14_NewRevisionParentIsHead ==
    RevisionCreated =>
        /\ last.ret \in Revs \ last.pre.revs
        /\ ScriptOf(last.ret).down_revision = last.pre.head
        /\ last.pre.revs = {} => ScriptOf(last.ret).down_revision = NoRev

C14_Witness ==
    /\ RevisionCreated
    /\ last.pre.head # NoRev
    /\ last.pre.db.version_num \in last.pre.revs \ {last.pre.head}
    /\ ScriptOf(last.ret).down_revision # last.pre.db.version_num

\* C15: downgrade() walks the chain backward one edge at a time: the first
\* step reverts the marker's revision, every further step the parent of the
\* one before; with the default target one step is run and the marker ends
\* on the parent of the old marker (absent for the root); a downgrade to
\* base reverts every applied revision, newest first, and ends with no
\* marker.
C15_DowngradeFollowsChainBackward ==
    (last.op = "downgrade" /\ last.pre.db.version_num \in Revs) =>
        /\ last.err = "none"
        /\ \A i \in 1..Len(last.applied) :
              last.applied[i] =
                  (IF i = 1 THEN last.pre.db.version_num
                   ELSE ScriptOf(last.applied[i - 1]).down_revision)
        /\ last.arg = TargetPrevious =>
              /\ last.applied = <<last.pre.db.version_num>>
              /\ version_num = ScriptOf(last.pre.db.version_num).down_revision
        /\ last.arg = TargetBase =>
              /\ last.applied = Reverse(Lineage(last.pre.db.version_num))
              /\ version_num = NoRev

C15_Witness ==
    /\ last.op = "downgrade"
    /\ last.arg = TargetBase
    /\ Len(last.applied) >= 2
    /\ prev.op = "downgrade"
    /\ prev.arg = TargetPrevious

\* C16: after run_in_thread() returned, a call to stop() makes the thread
\* terminate, whatever it had executed of run() when stop() was called.
C16_StopTerminatesThread == (stop_requested /\ ThreadAlive) ~> ~ThreadAlive

\* C17: listen() and run() on a listener without connection raise
\* RuntimeError and change nothing: no callback is registered, _running is
\* not set and the loop is not entered.
C17_NotConnectedRaisesAndChangesNothing ==
    [][(lcall'.op \in {"listen", "run"} /\ conn = "none") =>
           /\ lcall'.err = "RuntimeError"
           /\ UNCHANGED <<conn, callbacks, running, loop, in_thread, caller,
                          socket, notifies, delivered, stop_requested>>]_vars

C17_Witness ==
    /\ lcall.op \in {"listen", "run"}
    /\ lcall.err = "RuntimeError"
    /\ conn = "none"
    /\ sent > 0

SyncCompleted ==
    /\ lsync.op \in {"update_images", "update_subscription_types"}
    /\ lsync.err = ""

\* C18: after update_images() or update_subscription_types() completed
\* without raising, every name of the state list is the name of a row of the
\* table, whatever the table held before.
C18_SyncedNamesAreInTable ==
    SyncCompleted =>
        \A name \in lsync.state_list_names :
            \E r \in Table(lsync.table) : r.name = name

C18_Witness ==
    /\ SyncCompleted
    /\ lsync.state_list_names = Names
    /\ \E r \in Table(lsync.table) : ~r.is_active
    /\ Cardinality(Table(lsync.table)) >= 2

\* C19: a user never has two subscriptions, and SubscriptionOps.insert for a
\* user who has one (of any status, Cancelled included) returns
\* success=False and adds no row.
C19_OneSubscriptionPerUser ==
    /\ [](\A u \in UserIds : Cardinality({s \in subscriptions : s.user_id = u}) <= 1)
    /\ [][(/\ lop'.op = "SubscriptionOps.insert"
           /\ \E s \in subscriptions : s.user_id = lop'.arg.user) =>
              (~lop'.success /\ subscriptions' = subscriptions)]_vars

C19_Witness ==
    /\ lop.op = "SubscriptionOps.insert"
    /\ ~lop.success
    /\ lop.arg.user \in users
    /\ \E t \in subscription_types : t.tag = lop.arg.ref
    /\ \E s \in subscriptions : s.user_id = lop.arg.user /\ s.status = "Cancelled"

\* C20: after a successful UserOps.delete no container, order or
\* subscription refers to a user that is not in the users table: the rows
\* of the deleted users went with them.
C20_DeleteLeavesNoOrphan ==
    (lop.op = "UserOps.delete" /\ lop.success) =>
        /\ \A c \in containers : c.user_id \in users
        /\ \A o \in orders : o.user_id \in users
        /\ \A s \in subscriptions : s.user_id \in users

C20_Witness ==
    /\ lop.op = "UserOps.delete"
    /\ lop.success
    /\ lop.arg.user \in UserIds \ users
    /\ lop.removed >= 3
    /\ containers # {}

\* C21: SubscriptionTypeOps.delete succeeds also when subscriptions and
\* orders refer to the type, the users stay, and afterwards no subscription
\* or order refers to a subscription type that is not in the table.
C21_TypeDeleteCascades ==
    [][lop'.op = "SubscriptionTypeOps.delete" =>
          /\ lop'.success
          /\ users' = users
          /\ \A s \in subscriptions' :
                 \E t \in subscription_types' : t.tag = s.subscription_type_id
          /\ \A o \in orders' :
                 \E t \in subscription_types' : t.tag = o.subscription_type_id]_vars

\* The schema and marker that result from running the operations of the
\* given revisions, in order, on st.
RECURSIVE ApplyAll(_, _, _)
ApplyAll(dir, revs, st) ==
    IF revs = <<>> THEN st
    ELSE ApplyAll(dir, Tail(revs), ApplyStep(dir, ScriptOf(Head(revs)), st))

NoSchema == [tables |-> {}, types |-> {}, version_num |-> NoRev]

\* C22 (as stated): in every reachable state the marker names a script and
\* the live schema (tables other than the tracking table, enum types) is
\* what applying the chain from the root up to the marker's revision to an
\* empty database gives, and nothing more.
C22_SchemaIsChainUpToMarker ==
    /\ ~Dangling(Db)
    /\ [Db EXCEPT !.tables = @ \ {VersionTable}] =
           ApplyAll("up", Lineage(version_num), NoSchema)

\* C22 (amended): upgrade() and downgrade() move the marker together with
\* the schema: a call that fails, also mid-way after completed steps, leaves
\* tables, enum types and marker as they were before the call, and a call
\* that returns leaves the schema of before the call with the operations of
\* exactly the steps it ran applied, the marker being the revision the last
\* of them leads to.
C22_MarkerMovesWithSchema ==
    last.op \in {"upgrade", "downgrade"} =>
        IF last.err # "none"
        THEN Db = last.pre.db
        ELSE Db = ApplyAll(IF last.op = "upgrade" THEN "up" ELSE "down",
                           last.applied, EnsureVersionTable(last.pre.db))

C22_Witness ==
    /\ last.op = "upgrade"
    /\ last.err = "StepFailed"
    /\ Len(last.applied) >= 1
    /\ last.failed \in Revs
    /\ types # {}
    /\ version_num = last.pre.db.version_num

\* C23: upgrade of 089fb8e7c9e2 followed by its downgrade succeeds and is a
\* round trip: the enum has the old labels again and every containers row
\* has the status it had before the upgrade.
C23_StatusEnumRoundTrip ==
    [][(/\ lrev.op = "upgrade" /\ lrev.err = "none"
        /\ RevisionChain[lrev.from] = "093e4526fa42"
        /\ RevisionChain[lrev.rev] = "089fb8e7c9e2"
        /\ lrev'.op = "downgrade" /\ RevisionChain[lrev'.from] = "089fb8e7c9e2") =>
          /\ lrev'.err = "none"
          /\ containerstatus' = OldStatus
          /\ container_rows' = lrev.pre]_vars

\* C24: with the trigger of a1b2c3d4e5f6 in place, an UPDATE raises exactly
\* one notification, carrying id, user_id, name, old_status, new_status and
\* updated_at, for every row whose status value it changes, and none for a
\* row whose status stays (other columns only, or the same status again).
C24_OneNotificationPerStatusChange ==
    [][(lrev'.op = "ContainerOps.update" /\ trigger) =>
          notified' = notified \cup
              {[id |-> new.id, user_id |-> new.user_id, name |-> new.name,
                old_status |-> old.status, new_status |-> new.status,
                updated_at |-> new.updated_at] :
                   <<old, new>> \in {p \in container_rows \X container_rows' :
                                       p[1].id = p[2].id /\ p[1].status # p[2].status}}]_vars

C24_Witness ==
    /\ lrev.op = "ContainerOps.update"
    /\ lrev.err = "none"
    /\ trigger
    /\ lrev.matched = 2
    /\ lrev.changed = 1
    /\ Cardinality(notified) = 1

\* Identifiers of the notifications of a sequence, in its order.
Ids(sq) == [i \in 1..Len(sq) |-> sq[i].id]

Increasing(sq) == \A i, j \in 1..Len(sq) : i < j => sq[i] < sq[j]

\* C25: the callbacks are called in the order the notifications arrived and
\* at most once for each (what was handed over, what was read and what waits
\* on the connection are in arrival order), and every round of the dispatch
\* loop takes the first notification read, hands it to the callback of its
\* channel when one is registered and drops it otherwise, and goes on with
\* the next one also when the callback raised.
C25_DispatchInArrivalOrder ==
    /\ [] Increasing(Ids(delivered) \o Ids(notifies) \o Ids(socket))
    /\ [][(/\ lcall'.op = "loop" /\ lcall'.arg = "dispatch"
           /\ conn # "none" /\ notifies # <<>>) =>
             /\ notifies' = Tail(notifies)
             /\ loop' = "dispatch"
             /\ IF Head(notifies).channel \in callbacks
                THEN \E raises \in BOOLEAN :
                        delivered' = Append(delivered, Called(Head(notifies), raises))
                ELSE delivered' = delivered]_vars

C25_Witness ==
    /\ Len(delivered) = 2
    /\ delivered[1].raised
    /\ delivered[1].id = 1
    /\ delivered[2].id = 2
    /\ LoopAlive

\* C26: once disconnect() has returned, the thread started by
\* run_in_thread() is not past the connection check of run() and inside its
\* loop, and the thread never executes select, poll or the read of notifies
\* on a connection that disconnect() has closed and set to None.
C26_DisconnectLeavesNoRunningThread ==
    /\ []((lcall.op = "disconnect" /\ caller = "idle") =>
            ~(in_thread /\ loop \in {"set", "test", "select", "poll", "dispatch"}))
    /\ [][~(/\ in_thread
            /\ lcall'.op = "loop" /\ lcall'.arg \in {"select", "poll", "dispatch"}
            /\ conn = "none")]_vars

\* C27: update_images() and update_subscription_types() never remove a row,
\* whether they complete or raise: every name of the table before the call
\* is a name of the table after it and the table has no fewer rows; after a
\* call that completed every row whose name is not in the state list is
\* still there with is_active false.
C27_SyncRemovesNoRecord ==
    [][lsync'.op \in {"update_images", "update_subscription_types"} =>
          /\ \A t \in SyncTables :
                /\ {r.name : r \in Table(t)} \subseteq {r.name : r \in Table(t)'}
                /\ Cardinality(Table(t)) <= Cardinality(Table(t)')
          /\ lsync'.err = "" =>
                \A t \in SyncTables : \A r \in Table(t) :
                    (/\ t = lsync'.table
                     /\ r.name \notin lsync'.state_list_names) =>
                        \E q \in Table(t)' : q.name = r.name /\ ~q.is_active]_vars

C27_Witness ==
    /\ SyncCompleted
    /\ \E r \in Table(lsync.table) :
          /\ ~r.is_active
          /\ r.name \notin lsync.state_list_names
    /\ \E r \in Table(lsync.table) :
          /\ r.is_active
          /\ r.name \in lsync.state_list_names

\* C28: when the state file is missing, is not valid JSON, does not hold a
\* list or holds the empty list, update_images() and
\* update_subscription_types() raise and leave both tables as they were: no
\* row is inserted, updated or soft-deleted.
C28_UnusableStateFileChangesNothing ==
    [][(/\ lsync'.op \in {"update_images", "update_subscription_types"}
        /\ lsync'.file # "list" \/ lsync'.state_list_names = {}) =>
          /\ lsync'.err = "ValueError"
          /\ images' = images
          /\ subscription_types' = subscription_types]_vars

C28_Witness ==
    /\ lsync.op \in {"update_images", "update_subscription_types"}
    /\ lsync.file = "object"
    /\ lsync.err = "ValueError"
    /\ Cardinality({r \in Table(lsync.table) : r.is_active}) >= 2

\* C29: whenever no method of the SubscriptionOps object is executing, that
\* is after every method that returned or raised, self.session is None.
C29_SessionClosedAfterEveryMethod == session = "none"

\* What "the record satisfies the pair of filters" says: the record has the
\* field and the field has the value (no pair: every record).
Satisfies(filters, id, user_id) ==
    \/ filters.key = ""
    \/ filters.key = "id" /\ id = filters.value
    \/ filters.key = "user_id" /\ user_id = filters.value

\* C30: delete(filters) removes exactly the records that satisfy the pair of
\* filters: UserOps.delete removes those users and no others, and
\* ContainerOps.delete those containers and no others; a pair that no record
\* satisfies (a field the model does not have, a None value) removes nothing.
C30_DeleteRemovesExactlyTheMatches ==
    /\ [][lop'.op = "UserOps.delete" =>
            users' = {u \in users :
                        ~Satisfies([key |-> lop'.key, value |-> lop'.arg.user], u, Null)}]_vars
    /\ [][lop'.op = "ContainerOps.delete" =>
            containers' = {c \in containers :
                        ~Satisfies([key |-> lop'.key, value |-> lop'.arg.user],
                                   Null, c.user_id)}]_vars

====
